---- MODULE Spec2Model ----
(***************************************************************************)
(* Resumable deep copy of a Drive folder (src/copyFolder.js, final draft,  *)
(* lines 1-659).  One execution of main() is run step by step: the two     *)
(* recursive replicators createFolders and copyFiles are unfolded into an  *)
(* explicit call stack, the deadline is the truth value of                 *)
(* Date.now() >= jobTimeoutTime, and the state file, the destination drive *)
(* and the project's triggers are the durable state between executions.    *)
(***************************************************************************)
EXTENDS Integers, Sequences, FiniteSets, TLC

\* ------------------------------------------------------------------ bounds
\* how many times the deadline may expire over the whole job
MaxInterrupts == 2
\* how many remote mutations may throw over the whole job
MaxFailures == 1
\* how many times the user starts main() by hand
MaxManual == 2
\* how many times the two replicators are called again on a finished tree
MaxReruns == 1
\* how many times the user trashes the destination folder between executions
MaxTrash == 1

\* ------------------------------------------------------- source hierarchies
\* destId: null
NullId == 0

\* line 55
MAX_BACKOFF_ATTEMPTS == 20

\* line 48, in milliseconds
MAX_BACKOFF_TIME_MS == 32000

\* the folder handed to exploreFileTree by main (SOURCE_FOLDER_ID)
Root == 1

\* A (files f1, f2) with one subfolder B (file f3)
SrcScenario ==
  [name    |-> "scenario",
   names   |-> <<"A", "B">>,
   folders |-> <<  <<2>>, <<>>  >>,
   files   |-> <<  <<1, 2>>, <<3>>  >>,
   mime    |-> <<"pdf", "word", "sheets">>]

\* a chain A / B / C, one file in C
SrcChain ==
  [name    |-> "chain",
   names   |-> <<"A", "B", "C">>,
   folders |-> <<  <<2>>, <<3>>, <<>>  >>,
   files   |-> <<  <<>>, <<>>, <<1>>  >>,
   mime    |-> <<"pdf">>]

\* A (file f1) with two sibling subfolders that are both named X; the first
\* has a subfolder D with file f2
SrcSiblings ==
  [name    |-> "siblings",
   names   |-> <<"A", "X", "X", "D">>,
   folders |-> <<  <<2, 3>>, <<4>>, <<>>, <<>>  >>,
   files   |-> <<  <<1>>, <<>>, <<>>, <<2>>  >>,
   mime    |-> <<"excel", "pdf">>]

Sources == {SrcScenario, SrcChain, SrcSiblings}

RECURSIVE SeqSum(_)
SeqSum(s) == IF s = <<>> THEN 0 ELSE Len(Head(s)) + SeqSum(Tail(s))

FolderIds(s) == 1..Len(s.folders)
FileIds(s) == 1..SeqSum(s.files)

RECURSIVE Total(_)
Total(q) == IF q = <<>> THEN 0 ELSE Head(q) + Total(Tail(q))

\* FORMAT_CONVERSION_MAPPING, lines 91-100
FormatConversionMapping ==
  [m \in {"excel", "excelLegacy", "powerpoint", "powerpointLegacy", "word",
          "wordLegacy"} |->
     CASE m \in {"excel", "excelLegacy"} -> "sheets"
       [] m \in {"powerpoint", "powerpointLegacy"} -> "slides"
       [] OTHER -> "docs"]

\* ------------------------------------------------------------------- state
VARIABLES
  src,          \* the source hierarchy (read only)
  destExists,   \* a folder named DEST_FOLDER_NAME exists at the drive root
  created,      \* per source folder: destination folders created for it
  copied,       \* per source file: copies made of it
  persisted,    \* the state file: <<>> when absent, <<tree>> when present
  triggers,     \* the project's time-based triggers of main
  mpc,          \* position of main: "idle" when no execution is running
  fileTree,     \* main's local fileTree: <<>> for null, <<tree>> otherwise
  stack,        \* call stack of createFolders / copyFiles frames
  copySuccessful, \* main's local copySuccessful
  expired,      \* Date.now() >= jobTimeoutTime
  lastEnd,      \* how the last execution ended
  hist,         \* bookkeeping about the run, read by the properties only
  one           \* the copy of one file, step by step (lines 374-405)

vars == <<one, src, destExists, created, copied, persisted, triggers, mpc,
          fileTree, stack, copySuccessful, expired, lastEnd, hist>>

FT == fileTree[1]

\* ---------------------------------------------------------- Progress Store
Range(q) == {q[k] : k \in DOMAIN q}

RECURSIVE ToJson(_, _)
\* JSON.stringify: the FolderState of node n as the nested record written to
\* the state file, its files and folders as arrays of nested records
ToJson(t, n) ==
  [id            |-> n,
   name          |-> t.name[n],
   filesCopied   |-> t.filesCopied[n],
   foldersCopied |-> t.foldersCopied[n],
   destId        |-> t.destId[n],
   files         |-> [k \in 1..Len(t.files[n]) |->
                        [id     |-> t.files[n][k],
                         destId |-> t.fileDestId[t.files[n][k]]]],
   folders       |-> [k \in 1..Len(t.folders[n]) |->
                        ToJson(t, t.folders[n][k])]]

RECURSIVE JsonFolders(_)
\* every FolderState record of a parsed state file
JsonFolders(j) == {j} \cup UNION {JsonFolders(c) : c \in Range(j.folders)}

\* JSON.parse: the tree read back from the nested record
FromJson(j) ==
  LET nodes   == JsonFolders(j)
      fileRec == UNION {Range(m.files) : m \in nodes}
      node(f) == CHOOSE m \in nodes : m.id = f
      ids     == {m.id : m \in nodes}
  IN  [folders       |-> [f \in ids |->
                            [k \in 1..Len(node(f).folders) |->
                               node(f).folders[k].id]],
       files         |-> [f \in ids |->
                            [k \in 1..Len(node(f).files) |->
                               node(f).files[k].id]],
       name          |-> [f \in ids |-> node(f).name],
       destId        |-> [f \in ids |-> node(f).destId],
       foldersCopied |-> [f \in ids |-> node(f).foldersCopied],
       filesCopied   |-> [f \in ids |-> node(f).filesCopied],
       fileDestId    |-> [x \in {r.id : r \in fileRec} |->
                            (CHOOSE r \in fileRec : r.id = x).destId]]

\* ----------------------------------------------------------- Tree Explorer
\* an explorer that does not descend into the child folders
ExploreNodeShallow(s, n) ==
  [id            |-> n,
   name          |-> s.names[n],
   filesCopied   |-> FALSE,
   foldersCopied |-> FALSE,
   destId        |-> NullId,
   files         |-> [k \in 1..Len(s.files[n]) |->
                        [id |-> s.files[n][k], destId |-> NullId]],
   folders       |-> <<>>]

RECURSIVE ExploreNode(_, _)
\* exploreFileTree(folder): the files of the folder are listed and pushed as
\* FileState records, the child folders are listed and explored in turn, and
\* the FolderState record of lines 268-282 is returned
ExploreNode(s, n) ==
  [id            |-> n,
   name          |-> s.names[n],
   filesCopied   |-> FALSE,
   foldersCopied |-> FALSE,
   destId        |-> NullId,
   files         |-> [k \in 1..Len(s.files[n]) |->
                        [id |-> s.files[n][k], destId |-> NullId]],
   folders       |-> [k \in 1..Len(s.folders[n]) |->
                        ExploreNode(s, s.folders[n][k])]]

\* line 130: main's fileTree after exploreFileTree(sourceFolder)
ExploreFileTree(s) == FromJson(ExploreNode(s, Root))

\* _readState: null when the state file does not exist
ReadState == IF persisted = <<>> THEN <<>> ELSE <<FromJson(persisted[1])>>

\* a save that leaves the state file as it was
SaveStateStale(t) == persisted

\* _saveState: the whole tree is stringified and written over the file
SaveState(t) == <<ToJson(t, Root)>>

\* a delete that leaves the state file in place
DeleteStateKept == persisted

\* _deleteState
DeleteState == <<>>

\* ----------------------------------------------------------- Deadline Guard
\* _checkTimeout
CheckTimeout == expired

\* ------------------------------------------------------------ bookkeeping
HistInit(s) ==
  [interrupts |-> 0,      \* deadline expiries so far
   failures   |-> 0,      \* remote mutations that threw so far
   manual     |-> 0,      \* executions started by hand so far
   run        |-> 0,      \* number of the current (or last) execution
   scheduled  |-> 0,      \* triggers created by the current execution
   aborted    |-> FALSE,  \* some execution ended by an exception
   fatal      |-> "none", \* the remote call whose failure ended an execution
   how        |-> "none", \* what started the current (or last) execution
   trashed    |-> 0,      \* times the destination folder was trashed
   completed  |-> FALSE,  \* some execution has completed the job
   reported   |-> FALSE,  \* _checkTimeout returned true in this execution
   checked    |-> FALSE,  \* _checkTimeout returned false since the last
                          \* create or copy of this execution
   createRun  |-> [f \in FolderIds(s) |-> 0],  \* execution of the last create
   copyRun    |-> [x \in FileIds(s) |-> 0],   \* execution of the last copy
   reruns     |-> 0,      \* calls of the replicators on a finished tree
   before     |-> <<>>,   \* created and copied when the last such call began
   results    |-> <<>>]   \* what createFolders and copyFiles returned to it

\* ------------------------------------------------------------------ frames
Frame(fn, node) == [fn |-> fn, node |-> node, pc |-> "entry", i |-> 1]

Top == stack[Len(stack)]

Running == mpc # "idle"

Idle == mpc = "idle"

InFrame(fn, pc) == /\ stack # <<>>
                   /\ Top.fn = fn
                   /\ Top.pc = pc

SetTop(f) == [stack EXCEPT ![Len(stack)] = f]

\* the callee's frame is popped and the caller goes on with its next item
PopTrue ==
  LET rest == SubSeq(stack, 1, Len(stack) - 1)
  IN  [rest EXCEPT ![Len(rest)].i = @ + 1]

AfterOf(p) ==
  CASE p = "folders" -> "afterFolders"
    [] p = "files" -> "afterFiles"
    [] p = "rerunFolders" -> "rerunAfterFolders"
    [] OTHER -> "rerunAfterFiles"

\* a return value of false that the caller ignores: no break at lines 329
\* and 412, the loop goes on with the next child
ReturnNoBreak(val) ==
  IF Len(stack) > 1
  THEN /\ stack' = PopTrue
       /\ UNCHANGED <<mpc, copySuccessful>>
  ELSE /\ stack' = <<>>
       /\ mpc' = AfterOf(mpc)
       /\ copySuccessful' = val

\* return val: false makes every caller break out of its loop and return
\* false in turn (lines 329, 337, 412, 420), so the whole stack unwinds;
\* true goes back to the caller's loop, or to main from the root's frame
Return(val) ==
  IF val /\ Len(stack) > 1
  THEN /\ stack' = PopTrue
       /\ UNCHANGED <<mpc, copySuccessful>>
  ELSE /\ stack' = <<>>
       /\ mpc' = AfterOf(mpc)
       /\ copySuccessful' = val

\* a trigger that launched the execution is left over, disabled, once the
\* execution is over (comment at line 194)
EndTriggers(tr) == [tr EXCEPT !.disabled = @ + tr.active, !.active = 0]

\* an exception leaves main: nothing is saved, nothing is scheduled
Throw ==
  /\ stack' = <<>>
  /\ mpc' = "idle"
  /\ lastEnd' = "error"
  /\ triggers' = EndTriggers(triggers)

CanFail == hist.failures < MaxFailures

\* the remote call named what threw and nothing caught it
Failed(h, what) ==
  [h EXCEPT !.failures = @ + 1, !.aborted = TRUE, !.fatal = what]

\* ------------------------------------------------------- one file's copy
\* the types a file can have: Google Sheets, the six Office types of the
\* conversion table, and two types that have no entry in it
MimeTypes == {"sheets", "pdf", "docs"} \cup DOMAIN FormatConversionMapping

\* the sheets of a source spreadsheet: per sheet the form linked to it, 0
\* when getFormUrl() is null
SheetLayouts == {<<0>>, <<1>>, <<1, 0>>, <<0, 1>>, <<1, 2>>, <<1, 0, 2>>}

\* Math.random() * 1000, in milliseconds
Jitters == {0, 1, 500, 999}

Min(a, b) == IF a <= b THEN a ELSE b

\* a delay without the cap
DelayTimeUncapped(attempts, jitter) == 2 ^ attempts + jitter

\* lines 583-586
DelayTime(attempts, jitter) ==
  Min(MAX_BACKOFF_TIME_MS, 2 ^ attempts + jitter)

\* line 577
LoopGoesOn(attempts) == attempts <= MAX_BACKOFF_ATTEMPTS

\* the forms linked to the sheets of a spreadsheet
FormsOf(links) == Range(links) \ {0}

\* the copy of a form that Drive makes along with the spreadsheet's copy
\* (lines 426-427)
Dup(f) == f + Len(one.sheets)

\* the file under copy: its type, the value the script's CONVERT_NATIVE_FORMAT
\* is set to, and the forms linked to its sheets if it is a spreadsheet
OneStart(mime, convert, sheets) ==
  [pc       |-> "start",
   mime     |-> mime,
   convert  |-> convert,
   sheets   |-> sheets,
   links    |-> [src |-> sheets, copy |-> <<>>],
   forms    |-> [f \in FormsOf(sheets) |-> [dest |-> "src", trashed |-> FALSE]],
   hasLinkedForm |-> FALSE,
   i        |-> 1,
   attempts |-> 0,
   calls    |-> 0,       \* calls of the callback by withBackoff
   slept    |-> <<>>,    \* <<delay>> of the last Utilities.sleep
   backoff  |-> "none",  \* how withBackoff ended: "returned" or "threw"
   path     |-> "none",  \* the branch of lines 381-403 that was taken
   ret      |-> <<>>,    \* copiedFile: <<>> for undefined, <<file>> otherwise
   destId   |-> NullId,  \* fileObj.destId
   detached |-> 0,       \* calls of removeDestination
   error    |-> "none"]

OneIdle == [OneStart("pdf", TRUE, <<>>) EXCEPT !.pc = "idle"]

OneInputs ==
  {OneStart(m, c, <<>>) : m \in MimeTypes \ {"sheets"}, c \in BOOLEAN}
    \cup {OneStart("sheets", c, l) : c \in BOOLEAN, l \in SheetLayouts}

\* the file a copy call returns: a new file of the source's name
NewFile(mime) == [id |-> 1, name |-> "f", mime |-> mime]

\* the spreadsheet the clean-up loop of lines 459-460 opens
CleanupTargetSource == "src"

\* line 459: SpreadsheetApp.open(destSpreadsheetFile)
CleanupTarget == "copy"

\* lines 381-388 and 438-450: a spreadsheet; its sheets are scanned for a
\* linked form
SpreadsheetScan ==
  /\ one.pc = "start"
  /\ one.mime = "sheets"
  /\ one' = [one EXCEPT !.pc = "makeCopy", !.path = "spreadsheet",
                        !.hasLinkedForm =
                          \E k \in DOMAIN one.links.src : one.links.src[k] # 0]
  /\ UNCHANGED <<src, destExists, created, copied, persisted, triggers, mpc,
                 fileTree, stack, copySuccessful, expired, lastEnd, hist>>

\* lines 452-458: the copy has the sheets of the source, each linked form
\* copied along and linked to the copy's sheet
SpreadsheetMakeCopy ==
  /\ one.pc = "makeCopy"
  /\ one' = [one EXCEPT
       !.pc = IF one.hasLinkedForm THEN "cleanup" ELSE "record",
       !.i = 1,
       !.ret = <<NewFile(one.mime)>>,
       !.links.copy = [k \in DOMAIN one.links.src |->
                         IF one.links.src[k] = 0 THEN 0
                         ELSE Dup(one.links.src[k])],
       !.forms = [f \in DOMAIN one.forms
                         \cup {Dup(g) : g \in FormsOf(one.links.src)} |->
                    IF f \in DOMAIN one.forms THEN one.forms[f]
                    ELSE [dest |-> "copy", trashed |-> FALSE]]]
  /\ UNCHANGED <<src, destExists, created, copied, persisted, triggers, mpc,
                 fileTree, stack, copySuccessful, expired, lastEnd, hist>>

\* line 452 throws
SpreadsheetMakeCopyFails ==
  /\ one.pc = "makeCopy"
  /\ one' = [one EXCEPT !.pc = "thrown", !.error = "makeCopy"]
  /\ UNCHANGED <<src, destExists, created, copied, persisted, triggers, mpc,
                 fileTree, stack, copySuccessful, expired, lastEnd, hist>>

\* lines 460-470, one sheet: a linked form is unlinked and trashed
SpreadsheetCleanupSheet ==
  /\ one.pc = "cleanup"
  /\ one.i <= Len(one.links[CleanupTarget])
  /\ LET f == one.links[CleanupTarget][one.i] IN
       one' = IF f = 0
              THEN [one EXCEPT !.i = @ + 1]
              ELSE [one EXCEPT !.i = @ + 1,
                               !.links[CleanupTarget][one.i] = 0,
                               !.forms[f] = [dest |-> "none",
                                             trashed |-> TRUE],
                               !.detached = @ + 1]
  /\ UNCHANGED <<src, destExists, created, copied, persisted, triggers, mpc,
                 fileTree, stack, copySuccessful, expired, lastEnd, hist>>

\* line 473
SpreadsheetCleanupEnd ==
  /\ one.pc = "cleanup"
  /\ one.i > Len(one.links[CleanupTarget])
  /\ one' = [one EXCEPT !.pc = "record"]
  /\ UNCHANGED <<src, destExists, created, copied, persisted, triggers, mpc,
                 fileTree, stack, copySuccessful, expired, lastEnd, hist>>

\* lines 389-396 and 485-494: the type has an entry in the table, whatever
\* CONVERT_NATIVE_FORMAT is set to: withBackoff is called
FormatConversion ==
  /\ one.pc = "start"
  /\ one.mime # "sheets"
  /\ one.mime \in DOMAIN FormatConversionMapping
  /\ one' = [one EXCEPT !.pc = "call", !.path = "convert", !.attempts = 0]
  /\ UNCHANGED <<src, destExists, created, copied, persisted, triggers, mpc,
                 fileTree, stack, copySuccessful, expired, lastEnd, hist>>

\* line 579: the callback returns, and withBackoff returns what it returned
BackoffCallReturns ==
  /\ one.pc = "call"
  /\ one' = [one EXCEPT
       !.pc = "record",
       !.calls = @ + 1,
       !.backoff = "returned",
       !.ret = <<NewFile(FormatConversionMapping[one.mime])>>]
  /\ UNCHANGED <<src, destExists, created, copied, persisted, triggers, mpc,
                 fileTree, stack, copySuccessful, expired, lastEnd, hist>>

\* lines 580-592: the callback throws; the error is logged, the delay is
\* slept, attempts goes up by one; when the loop ends withBackoff returns
\* without a value (line 593)
BackoffCallThrows ==
  /\ one.pc = "call"
  /\ \E jitter \in Jitters :
       one' = [one EXCEPT
         !.calls = @ + 1,
         !.slept = <<DelayTime(one.attempts, jitter)>>,
         !.attempts = @ + 1,
         !.pc = IF LoopGoesOn(one.attempts + 1) THEN "call" ELSE "record",
         !.backoff = IF LoopGoesOn(one.attempts + 1) THEN @ ELSE "returned"]
  /\ UNCHANGED <<src, destExists, created, copied, persisted, triggers, mpc,
                 fileTree, stack, copySuccessful, expired, lastEnd, hist>>

\* lines 397-402: any other type
DefaultCopy ==
  /\ one.pc = "start"
  /\ one.mime # "sheets"
  /\ one.mime \notin DOMAIN FormatConversionMapping
  /\ one' = [one EXCEPT !.pc = "record", !.path = "duplicate",
                        !.ret = <<NewFile(one.mime)>>]
  /\ UNCHANGED <<src, destExists, created, copied, persisted, triggers, mpc,
                 fileTree, stack, copySuccessful, expired, lastEnd, hist>>

\* line 402 throws
DefaultCopyFails ==
  /\ one.pc = "start"
  /\ one.mime # "sheets"
  /\ one.mime \notin DOMAIN FormatConversionMapping
  /\ one' = [one EXCEPT !.pc = "thrown", !.path = "duplicate",
                        !.error = "makeCopy"]
  /\ UNCHANGED <<src, destExists, created, copied, persisted, triggers, mpc,
                 fileTree, stack, copySuccessful, expired, lastEnd, hist>>

\* line 405
RecordDest ==
  /\ one.pc = "record"
  /\ one.ret # <<>>
  /\ one' = [one EXCEPT !.pc = "done", !.destId = one.ret[1].id]
  /\ UNCHANGED <<src, destExists, created, copied, persisted, triggers, mpc,
                 fileTree, stack, copySuccessful, expired, lastEnd, hist>>

\* line 405 with copiedFile undefined: a TypeError
RecordDestThrows ==
  /\ one.pc = "record"
  /\ one.ret = <<>>
  /\ one' = [one EXCEPT !.pc = "thrown", !.error = "TypeError"]
  /\ UNCHANGED <<src, destExists, created, copied, persisted, triggers, mpc,
                 fileTree, stack, copySuccessful, expired, lastEnd, hist>>

\* ---------------------------------------------------- Structure Replicator
\* the deadline looked at before the flag
FoldersAlreadyDoneAfterDeadline(t, n) == t.foldersCopied[n] /\ ~expired

\* line 298
FoldersAlreadyDone(t, n) == t.foldersCopied[n]

\* a child folder is never passed over
SkipFolderNever(t, c) == FALSE

\* line 313: skip if folder already copied
SkipFolder(t, c) == t.destId[c] # NullId

\* createFolder makes a new folder each time it is called, whatever folders
\* of that name the parent holds already: the id it returns is a new one
NewFolderId == Total(created) + 1

\* makeCopy and Drive.Files.create make a new file each time
NewFileId == Total(copied) + 1

\* line 324
RecordFolder(t, c, id) == [t EXCEPT !.destId[c] = id]

\* line 334
MarkFoldersCopied(t, n) == [t EXCEPT !.foldersCopied[n] = TRUE]

CreateFoldersDone ==
  /\ InFrame("createFolders", "entry")
  /\ FoldersAlreadyDone(FT, Top.node)
  /\ Return(TRUE)
  /\ UNCHANGED <<one, src, destExists, created, copied, persisted, triggers,
                 fileTree, expired, lastEnd, hist>>

CreateFoldersTimeout ==
  /\ InFrame("createFolders", "entry")
  /\ ~FoldersAlreadyDone(FT, Top.node)
  /\ CheckTimeout
  /\ Return(FALSE)
  /\ hist' = [hist EXCEPT !.reported = TRUE]
  /\ UNCHANGED <<one, src, destExists, created, copied, persisted, triggers,
                 fileTree, expired, lastEnd>>

\* lines 307-310: DriveApp.getFolderById throws on a null id
CreateFoldersEnter ==
  /\ InFrame("createFolders", "entry")
  /\ ~FoldersAlreadyDone(FT, Top.node)
  /\ ~CheckTimeout
  /\ IF FT.destId[Top.node] = NullId
     THEN /\ Throw
          /\ hist' = [hist EXCEPT !.aborted = TRUE]
          /\ UNCHANGED copySuccessful
     ELSE /\ stack' = SetTop([Top EXCEPT !.pc = "loop", !.i = 1])
          /\ hist' = [hist EXCEPT !.checked = TRUE]
          /\ UNCHANGED <<mpc, lastEnd, triggers, copySuccessful>>
  /\ UNCHANGED <<one, src, destExists, created, copied, persisted, fileTree,
                 expired>>

CreateFoldersSkip ==
  /\ InFrame("createFolders", "loop")
  /\ Top.i <= Len(FT.folders[Top.node])
  /\ SkipFolder(FT, FT.folders[Top.node][Top.i])
  /\ stack' = SetTop([Top EXCEPT !.i = @ + 1])
  /\ UNCHANGED <<one, src, destExists, created, copied, persisted, triggers, mpc,
                 fileTree, copySuccessful, expired, lastEnd, hist>>

\* lines 318-327: create the folder, record its id, recurse on the child
CreateFoldersCreate ==
  /\ InFrame("createFolders", "loop")
  /\ Top.i <= Len(FT.folders[Top.node])
  /\ LET c == FT.folders[Top.node][Top.i] IN
       /\ ~SkipFolder(FT, c)
       /\ created' = [created EXCEPT ![c] = @ + 1]
       /\ fileTree' = <<RecordFolder(FT, c, NewFolderId)>>
       /\ stack' = Append(stack, Frame("createFolders", c))
       /\ hist' = [hist EXCEPT !.createRun[c] = hist.run, !.checked = FALSE]
  /\ UNCHANGED <<one, src, destExists, copied, persisted, triggers, mpc,
                 copySuccessful, expired, lastEnd>>

\* line 323 throws
CreateFoldersCreateFails ==
  /\ InFrame("createFolders", "loop")
  /\ Top.i <= Len(FT.folders[Top.node])
  /\ ~SkipFolder(FT, FT.folders[Top.node][Top.i])
  /\ CanFail
  /\ Throw
  /\ hist' = Failed(hist, "createFolder")
  /\ UNCHANGED <<one, src, destExists, created, copied, persisted, fileTree,
                 copySuccessful, expired>>

\* lines 332-337 after the last child
CreateFoldersEnd ==
  /\ InFrame("createFolders", "loop")
  /\ Top.i > Len(FT.folders[Top.node])
  /\ fileTree' = <<MarkFoldersCopied(FT, Top.node)>>
  /\ Return(TRUE)
  /\ UNCHANGED <<one, src, destExists, created, copied, persisted, triggers,
                 expired, lastEnd, hist>>

\* ------------------------------------------------------ Content Replicator
\* line 354
FilesAlreadyDone(t, n) == t.filesCopied[n]

\* a file is never passed over
SkipFileNever(t, x) == FALSE

\* a file is always passed over
SkipFileAlways(t, x) == TRUE

\* line 365: skip if already copied
SkipFile(t, x) == t.fileDestId[x] # NullId

\* line 405
RecordFile(t, x, id) == [t EXCEPT !.fileDestId[x] = id]

\* line 417
MarkFilesCopied(t, n) == [t EXCEPT !.filesCopied[n] = TRUE]

CopyFilesDone ==
  /\ InFrame("copyFiles", "entry")
  /\ FilesAlreadyDone(FT, Top.node)
  /\ Return(TRUE)
  /\ UNCHANGED <<one, src, destExists, created, copied, persisted, triggers,
                 fileTree, expired, lastEnd, hist>>

CopyFilesTimeout ==
  /\ InFrame("copyFiles", "entry")
  /\ ~FilesAlreadyDone(FT, Top.node)
  /\ CheckTimeout
  /\ Return(FALSE)
  /\ hist' = [hist EXCEPT !.reported = TRUE]
  /\ UNCHANGED <<one, src, destExists, created, copied, persisted, triggers,
                 fileTree, expired, lastEnd>>

\* line 362: DriveApp.getFolderById(fileTree.destId) throws on a null id
CopyFilesEnter ==
  /\ InFrame("copyFiles", "entry")
  /\ ~FilesAlreadyDone(FT, Top.node)
  /\ ~CheckTimeout
  /\ IF FT.destId[Top.node] = NullId
     THEN /\ Throw
          /\ hist' = [hist EXCEPT !.aborted = TRUE]
          /\ UNCHANGED copySuccessful
     ELSE /\ stack' = SetTop([Top EXCEPT !.pc = "files", !.i = 1])
          /\ hist' = [hist EXCEPT !.checked = TRUE]
          /\ UNCHANGED <<mpc, lastEnd, triggers, copySuccessful>>
  /\ UNCHANGED <<one, src, destExists, created, copied, persisted, fileTree,
                 expired>>

CopyFilesSkip ==
  /\ InFrame("copyFiles", "files")
  /\ Top.i <= Len(FT.files[Top.node])
  /\ SkipFile(FT, FT.files[Top.node][Top.i])
  /\ stack' = SetTop([Top EXCEPT !.i = @ + 1])
  /\ UNCHANGED <<one, src, destExists, created, copied, persisted, triggers, mpc,
                 fileTree, copySuccessful, expired, lastEnd, hist>>

\* lines 370-372: the deadline is checked again before each file
CopyFilesFileTimeout ==
  /\ InFrame("copyFiles", "files")
  /\ Top.i <= Len(FT.files[Top.node])
  /\ ~SkipFile(FT, FT.files[Top.node][Top.i])
  /\ CheckTimeout
  /\ Return(FALSE)
  /\ hist' = [hist EXCEPT !.reported = TRUE]
  /\ UNCHANGED <<one, src, destExists, created, copied, persisted, triggers,
                 fileTree, expired, lastEnd>>

\* lines 370-372 when the deadline has not expired: go on to the copy
CopyFilesCheck ==
  /\ InFrame("copyFiles", "files")
  /\ Top.i <= Len(FT.files[Top.node])
  /\ ~SkipFile(FT, FT.files[Top.node][Top.i])
  /\ ~CheckTimeout
  /\ stack' = SetTop([Top EXCEPT !.pc = "copy"])
  /\ hist' = [hist EXCEPT !.checked = TRUE]
  /\ UNCHANGED <<one, src, destExists, created, copied, persisted, triggers, mpc,
                 fileTree, copySuccessful, expired, lastEnd>>

\* lines 374-405: copy the file, record the id of the copy
CopyFilesCopy ==
  /\ InFrame("copyFiles", "copy")
  /\ LET x == FT.files[Top.node][Top.i] IN
       /\ copied' = [copied EXCEPT ![x] = @ + 1]
       /\ fileTree' = <<RecordFile(FT, x, NewFileId)>>
       /\ hist' = [hist EXCEPT !.copyRun[x] = hist.run, !.checked = FALSE]
  /\ stack' = SetTop([Top EXCEPT !.pc = "files", !.i = @ + 1])
  /\ UNCHANGED <<one, src, destExists, created, persisted, triggers, mpc,
                 copySuccessful, expired, lastEnd>>

\* line 389: the file's type has an entry in FORMAT_CONVERSION_MAPPING
Convertible(x) == src.mime[x] \in DOMAIN FormatConversionMapping

\* makeCopy at line 402 or 452 throws: nothing catches it
CopyFilesCopyFails ==
  /\ InFrame("copyFiles", "copy")
  /\ ~Convertible(FT.files[Top.node][Top.i])
  /\ CanFail
  /\ Throw
  /\ hist' = Failed(hist, "makeCopy")
  /\ UNCHANGED <<one, src, destExists, created, copied, persisted, fileTree,
                 copySuccessful, expired>>

\* Drive.Files.create at line 495 throws: withBackoff catches it, sleeps and
\* calls it again
CopyFilesCopyRetry ==
  /\ InFrame("copyFiles", "copy")
  /\ Convertible(FT.files[Top.node][Top.i])
  /\ CanFail
  /\ hist' = [hist EXCEPT !.failures = @ + 1]
  /\ UNCHANGED <<one, src, destExists, created, copied, persisted, triggers, mpc,
                 fileTree, stack, copySuccessful, expired, lastEnd>>

\* line 408: the files are through, go on with the child folders
CopyFilesFilesEnd ==
  /\ InFrame("copyFiles", "files")
  /\ Top.i > Len(FT.files[Top.node])
  /\ stack' = SetTop([Top EXCEPT !.pc = "folders", !.i = 1])
  /\ UNCHANGED <<one, src, destExists, created, copied, persisted, triggers, mpc,
                 fileTree, copySuccessful, expired, lastEnd, hist>>

\* line 411
CopyFilesRecurse ==
  /\ InFrame("copyFiles", "folders")
  /\ Top.i <= Len(FT.folders[Top.node])
  /\ stack' = Append(stack, Frame("copyFiles", FT.folders[Top.node][Top.i]))
  /\ UNCHANGED <<one, src, destExists, created, copied, persisted, triggers, mpc,
                 fileTree, copySuccessful, expired, lastEnd, hist>>

\* lines 415-420 after the last child
CopyFilesEnd ==
  /\ InFrame("copyFiles", "folders")
  /\ Top.i > Len(FT.folders[Top.node])
  /\ fileTree' = <<MarkFilesCopied(FT, Top.node)>>
  /\ Return(TRUE)
  /\ UNCHANGED <<one, src, destExists, created, copied, persisted, triggers,
                 expired, lastEnd, hist>>

\* ------------------------------------------------------------ Resume Driver
\* main is started by hand or by a pending trigger, one execution at a time;
\* line 106 sets a deadline that lies in the future
Launch(how) ==
  /\ mpc = "idle"
  /\ \/ /\ how = "manual"
        /\ hist.manual < MaxManual
        /\ triggers' = triggers
     \/ /\ how = "trigger"
        /\ triggers.pending > 0
        /\ triggers' = [triggers EXCEPT !.pending = @ - 1, !.active = 1]
  /\ expired' = FALSE

Launched(h, how) ==
  [h EXCEPT !.run = @ + 1, !.scheduled = 0, !.reported = FALSE,
            !.checked = FALSE, !.how = how,
            !.manual = IF how = "manual" THEN @ + 1 ELSE @]

\* a folder that is never found
DestFolderExistsNever == FALSE

\* lines 114 and 119: destFolderIterator.hasNext()
DestFolderExists == destExists

\* a folder that is never missed
DestFolderMissingNever == FALSE

\* lines 114 and 137: !destFolderIterator.hasNext()
DestFolderMissing == ~destExists

\* lines 117-124: no state file, and the destination exists already
MainFreshExists(how) ==
  /\ mpc = "idle"
  /\ ReadState = <<>>
  /\ DestFolderExists
  /\ \/ /\ how = "manual"
        /\ hist.manual < MaxManual
        /\ triggers' = triggers
     \/ /\ how = "trigger"
        /\ triggers.pending > 0
        /\ triggers' = [triggers EXCEPT !.pending = @ - 1, !.disabled = @ + 1]
  /\ expired' = FALSE
  /\ fileTree' = <<>>
  /\ lastEnd' = "error"
  /\ hist' = [Launched(hist, how) EXCEPT !.aborted = TRUE]
  /\ UNCHANGED <<one, src, destExists, created, copied, persisted, mpc, stack,
                 copySuccessful>>

\* lines 126-130: no state file and no destination, the source is explored
MainExplore(how) ==
  /\ Launch(how)
  /\ ReadState = <<>>
  /\ ~DestFolderExists
  /\ fileTree' = <<ExploreFileTree(src)>>
  /\ mpc' = "explored"
  /\ hist' = Launched(hist, how)
  /\ UNCHANGED <<one, src, destExists, created, copied, persisted, stack,
                 copySuccessful, lastEnd>>

\* lines 132-134 and 158: create the destination, start phase 1
MainCreateDest ==
  /\ mpc = "explored"
  /\ destExists' = TRUE
  /\ created' = [created EXCEPT ![Root] = @ + 1]
  /\ fileTree' = <<RecordFolder(FT, Root, NewFolderId)>>
  /\ stack' = <<Frame("createFolders", Root)>>
  /\ mpc' = "folders"
  /\ hist' = [hist EXCEPT !.createRun[Root] = hist.run]
  /\ UNCHANGED <<one, src, copied, persisted, triggers, copySuccessful, expired,
                 lastEnd>>

\* line 133 throws
MainCreateDestFails ==
  /\ mpc = "explored"
  /\ CanFail
  /\ Throw
  /\ hist' = Failed(hist, "root")
  /\ UNCHANGED <<one, src, destExists, created, copied, persisted, fileTree,
                 copySuccessful, expired>>

\* lines 135-141: a state file, but the destination folder is gone
MainResumeMissing(how) ==
  /\ mpc = "idle"
  /\ ReadState # <<>>
  /\ DestFolderMissing
  /\ \/ /\ how = "manual"
        /\ hist.manual < MaxManual
        /\ triggers' = triggers
     \/ /\ how = "trigger"
        /\ triggers.pending > 0
        /\ triggers' = [triggers EXCEPT !.pending = @ - 1, !.disabled = @ + 1]
  /\ expired' = FALSE
  /\ fileTree' = ReadState
  /\ lastEnd' = "error"
  /\ hist' = [Launched(hist, how) EXCEPT !.aborted = TRUE]
  /\ UNCHANGED <<one, src, destExists, created, copied, persisted, mpc, stack,
                 copySuccessful>>

\* lines 135-148 and 158: the state file is the tree, start phase 1
MainResume(how) ==
  /\ Launch(how)
  /\ ReadState # <<>>
  /\ ~DestFolderMissing
  /\ fileTree' = ReadState
  /\ stack' = <<Frame("createFolders", Root)>>
  /\ mpc' = "folders"
  /\ hist' = Launched(hist, how)
  /\ UNCHANGED <<one, src, destExists, created, copied, persisted, copySuccessful,
                 lastEnd>>

\* phase 2 is started whatever phase 1 returned
PhaseOneDoneAlways == TRUE

\* line 164: createFolders returned true
PhaseOneDone == copySuccessful

\* lines 164-171: phase 1 returned true, start phase 2
MainCopyFiles ==
  /\ mpc = "afterFolders"
  /\ PhaseOneDone
  /\ stack' = <<Frame("copyFiles", Root)>>
  /\ mpc' = "files"
  /\ UNCHANGED <<one, src, destExists, created, copied, persisted, triggers,
                 fileTree, copySuccessful, expired, lastEnd, hist>>

\* two triggers are created
NewTriggerTwice(tr) == [tr EXCEPT !.pending = @ + 2]

\* line 188: ScriptApp.newTrigger("main").timeBased().after(...).create()
NewTrigger(tr) == [tr EXCEPT !.pending = @ + 1]

\* lines 178-188: save the tree, set a new trigger
MainTimedOut ==
  /\ mpc \in {"afterFolders", "afterFiles"}
  /\ ~copySuccessful
  /\ persisted' = SaveState(FT)
  /\ triggers' = EndTriggers(NewTrigger(triggers))
  /\ hist' = [hist EXCEPT !.scheduled = @ + 1]
  /\ mpc' = "idle"
  /\ lastEnd' = "interrupted"
  /\ UNCHANGED <<one, src, destExists, created, copied, fileTree, stack,
                 copySuccessful, expired>>

\* a clean-up that deletes no trigger
DeleteDisabledNone(tr) == tr

\* lines 195-199: every trigger that is disabled by now is deleted
DeleteDisabled(tr) == [tr EXCEPT !.disabled = 0]

\* lines 189-204: delete the state file, delete the disabled triggers
MainDone ==
  /\ mpc = "afterFiles"
  /\ copySuccessful
  /\ persisted' = DeleteState
  /\ triggers' = EndTriggers(DeleteDisabled(triggers))
  /\ hist' = [hist EXCEPT !.completed = TRUE]
  /\ mpc' = "idle"
  /\ lastEnd' = "complete"
  /\ UNCHANGED <<one, src, destExists, created, copied, fileTree, stack,
                 copySuccessful, expired>>

\* time passes during an execution and reaches jobTimeoutTime
Expire ==
  /\ Running
  /\ ~expired
  /\ hist.interrupts < MaxInterrupts
  /\ expired' = TRUE
  /\ hist' = [hist EXCEPT !.interrupts = @ + 1]
  /\ UNCHANGED <<one, src, destExists, created, copied, persisted, triggers, mpc,
                 fileTree, stack, copySuccessful, lastEnd>>

\* between two executions the user moves the destination folder to the
\* trash, while the state file of the interrupted job is still there
TrashDest ==
  /\ Idle
  /\ destExists
  /\ persisted # <<>>
  /\ hist.trashed < MaxTrash
  /\ destExists' = FALSE
  /\ hist' = [hist EXCEPT !.trashed = @ + 1]
  /\ UNCHANGED <<one, src, created, copied, persisted, triggers, mpc, fileTree,
                 stack, copySuccessful, expired, lastEnd>>

\* ----------------------------------------------------------- specification
Init ==
  /\ src \in Sources
  /\ destExists \in BOOLEAN
  /\ created = [f \in FolderIds(src) |-> 0]
  /\ copied = [x \in FileIds(src) |-> 0]
  /\ persisted = <<>>
  /\ triggers = [pending |-> 0, active |-> 0, disabled |-> 0]
  /\ mpc = "idle"
  /\ fileTree = <<>>
  /\ stack = <<>>
  /\ copySuccessful = FALSE
  /\ expired = FALSE
  /\ lastEnd = "none"
  /\ hist = HistInit(src)
  /\ one = OneIdle

Main ==
  \E how \in {"manual", "trigger"} :
    \/ MainFreshExists(how)
    \/ MainExplore(how)
    \/ MainResumeMissing(how)
    \/ MainResume(how)

CreateFolders ==
  \/ CreateFoldersDone
  \/ CreateFoldersTimeout
  \/ CreateFoldersEnter
  \/ CreateFoldersSkip
  \/ CreateFoldersCreate
  \/ CreateFoldersCreateFails
  \/ CreateFoldersEnd

CopyFiles ==
  \/ CopyFilesDone
  \/ CopyFilesTimeout
  \/ CopyFilesEnter
  \/ CopyFilesSkip
  \/ CopyFilesFileTimeout
  \/ CopyFilesCheck
  \/ CopyFilesCopy
  \/ CopyFilesCopyFails
  \/ CopyFilesCopyRetry
  \/ CopyFilesFilesEnd
  \/ CopyFilesRecurse
  \/ CopyFilesEnd

\* the steps of the script and of its clock
Step ==
  \/ Main
  \/ CreateFolders
  \/ CopyFiles
  \/ MainCreateDest
  \/ MainCreateDestFails
  \/ MainCopyFiles
  \/ MainTimedOut
  \/ MainDone
  \/ Expire

Next ==
  \/ Step
  \/ TrashDest

Spec == Init /\ [][Next]_vars

\* ------------------------------------------ the replicators called again
\* createFolders and then copyFiles are called on the tree main has just
\* finished, when every folder node of it has both flags set, with the
\* deadline expired or not
AllDone(t) == \A f \in DOMAIN t.destId : t.foldersCopied[f] /\ t.filesCopied[f]

RerunCreateFolders ==
  /\ Idle
  /\ lastEnd = "complete"
  /\ AllDone(FT)
  /\ hist.reruns < MaxReruns
  /\ expired' \in BOOLEAN
  /\ stack' = <<Frame("createFolders", Root)>>
  /\ mpc' = "rerunFolders"
  /\ hist' = [hist EXCEPT !.reruns = @ + 1, !.before = <<created, copied>>,
                          !.results = <<>>]
  /\ UNCHANGED <<one, src, destExists, created, copied, persisted, triggers,
                 fileTree, copySuccessful, lastEnd>>

RerunCopyFiles ==
  /\ mpc = "rerunAfterFolders"
  /\ stack' = <<Frame("copyFiles", Root)>>
  /\ mpc' = "rerunFiles"
  /\ hist' = [hist EXCEPT !.results = Append(@, copySuccessful)]
  /\ UNCHANGED <<one, src, destExists, created, copied, persisted, triggers,
                 fileTree, copySuccessful, expired, lastEnd>>

RerunEnd ==
  /\ mpc = "rerunAfterFiles"
  /\ mpc' = "idle"
  /\ lastEnd' = "rerun"
  /\ hist' = [hist EXCEPT !.results = Append(@, copySuccessful)]
  /\ UNCHANGED <<one, src, destExists, created, copied, persisted, triggers,
                 fileTree, stack, copySuccessful, expired>>

IdemNext ==
  \/ Next
  \/ RerunCreateFolders
  \/ RerunCopyFiles
  \/ RerunEnd

IdemSpec == Init /\ [][IdemNext]_vars

\* one file is copied, of any type, with any forms linked to it, with the
\* conversion switch on or off, the remote calls failing or not
CopyInit ==
  /\ src = SrcScenario
  /\ destExists = TRUE
  /\ created = [f \in FolderIds(src) |-> 0]
  /\ copied = [x \in FileIds(src) |-> 0]
  /\ persisted = <<>>
  /\ triggers = [pending |-> 0, active |-> 0, disabled |-> 0]
  /\ mpc = "idle"
  /\ fileTree = <<>>
  /\ stack = <<>>
  /\ copySuccessful = FALSE
  /\ expired = FALSE
  /\ lastEnd = "none"
  /\ hist = HistInit(src)
  /\ one \in OneInputs

CopyNext ==
  \/ SpreadsheetScan
  \/ SpreadsheetMakeCopy
  \/ SpreadsheetMakeCopyFails
  \/ SpreadsheetCleanupSheet
  \/ SpreadsheetCleanupEnd
  \/ FormatConversion
  \/ BackoffCallReturns
  \/ BackoffCallThrows
  \/ DefaultCopy
  \/ DefaultCopyFails
  \/ RecordDest
  \/ RecordDestThrows

CopySpec == CopyInit /\ [][CopyNext]_vars

\* the program's steps are taken, pending triggers fire, and the user starts
\* main again while they still care to; nothing makes the user trash the
\* destination
FairSpec == Spec /\ WF_vars(Step)

\* ------------------------------------------------------------- vocabulary
RECURSIVE Subtree(_, _)
\* the folder nodes of the subtree rooted at n, n included
Subtree(t, n) == {n} \cup UNION {Subtree(t, c) : c \in Range(t.folders[n])}

\* the file nodes directly under n or under one of its descendants
FilesUnder(t, n) == UNION {Range(t.files[m]) : m \in Subtree(t, n)}

\* the trees that exist: main's in-memory tree and the saved one
Trees == Range(fileTree) \cup Range(ReadState)

\* the job is complete: both flags on the root, one destination folder per
\* source folder, one copy per source file
Complete ==
  /\ Idle
  /\ lastEnd = "complete"
  /\ FT.foldersCopied[Root]
  /\ FT.filesCopied[Root]
  /\ \A f \in FolderIds(src) : created[f] = 1 /\ FT.destId[f] # NullId
  /\ \A x \in FileIds(src) : copied[x] = 1 /\ FT.fileDestId[x] # NullId

\* ------------------------------------------------------------------ claims

\* C1: started on a drive without the destination, with no remote call
\* failing and the destination never trashed, repeated re-invocation of main
\* under deadline interruptions eventually reaches the complete state (both
\* flags on the root, every source folder and file with exactly one
\* destination counterpart).
C1_Completeness ==
  destExists \/ <>(Complete \/ hist.failures > 0 \/ hist.trashed > 0)

\* C2: in every tree, in memory or saved, a folder with foldersCopied has
\* destId set on itself and on every folder of its subtree.
C2_StructureDoneImpliesDest ==
  \A t \in Trees : \A n \in DOMAIN t.destId :
    t.foldersCopied[n] => \A m \in Subtree(t, n) : t.destId[m] # NullId

\* C3: as long as no execution has ended by an exception, a destId that is
\* set keeps its value from one state to the next, a node whose destId is
\* set receives no further create or copy, and no node ever receives more
\* than one create or copy.
C3_Monotonic ==
  [][~hist'.aborted =>
       /\ (fileTree # <<>> /\ fileTree' # <<>>) =>
            /\ \A f \in FolderIds(src) :
                 FT.destId[f] # NullId =>
                   /\ fileTree'[1].destId[f] = FT.destId[f]
                   /\ created'[f] = created[f]
            /\ \A x \in FileIds(src) :
                 FT.fileDestId[x] # NullId =>
                   /\ fileTree'[1].fileDestId[x] = FT.fileDestId[x]
                   /\ copied'[x] = copied[x]
       /\ \A f \in FolderIds(src) : created'[f] <= 1
       /\ \A x \in FileIds(src) : copied'[x] <= 1]_vars

\* a job completed in a second execution, which passed over a file copied
\* by the first one and copied another file itself
C3_Witness ==
  /\ Complete
  /\ ~hist.aborted
  /\ hist.run = 2
  /\ \E x, y \in FileIds(src) : hist.copyRun[x] = 1 /\ hist.copyRun[y] = 2

\* C4: when an execution has been aborted by an exception, every destId its
\* in-memory tree holds is recorded in the saved tree that the next
\* invocation loads.
C4_AbortKeepsProgress ==
  (Idle /\ lastEnd = "error" /\ fileTree # <<>>) =>
    /\ \A f \in FolderIds(src) :
         FT.destId[f] # NullId =>
           persisted # <<>> /\ ReadState[1].destId[f] = FT.destId[f]
    /\ \A x \in FileIds(src) :
         FT.fileDestId[x] # NullId =>
           persisted # <<>> /\ ReadState[1].fileDestId[x] = FT.fileDestId[x]

\* C5: every folder node for which copyFiles has been entered has its
\* destId set.
C5_CopyFilesHasDest ==
  \A k \in DOMAIN stack :
    stack[k].fn = "copyFiles" => FT.destId[stack[k].node] # NullId

\* C6: in every tree, in memory or saved, a folder with filesCopied has
\* destId set on every file under it and under its descendant folders.
C6_ContentDoneImpliesCopied ==
  \A t \in Trees : \A n \in DOMAIN t.destId :
    t.filesCopied[n] => \A x \in FilesUnder(t, n) : t.fileDestId[x] # NullId

\* the root of a hierarchy with files below it has filesCopied, after a
\* resume
C6_Witness ==
  /\ fileTree # <<>>
  /\ FT.filesCopied[Root]
  /\ FilesUnder(FT, Root) # Range(FT.files[Root])
  /\ hist.run >= 2

\* C7 as stated: once the deadline of the running execution has expired,
\* no step of that execution creates a folder or copies a file.
C7_DeadlineRespect ==
  [][(Running /\ expired) => (created' = created /\ copied' = copied)]_vars

\* C7, amended: once _checkTimeout has returned true in an execution, no
\* step of that execution creates a folder or copies a file; and each
\* folder creation of createFolders and each file copy of copyFiles comes
\* after a _checkTimeout that returned false, with no other creation or
\* copy in between.
C7_DeadlineGate ==
  [][Running =>
       /\ hist.reported => (created' = created /\ copied' = copied)
       /\ (mpc # "explored" /\ (created' # created \/ copied' # copied))
            => hist.checked]_vars

\* an execution in which the deadline check has reported expiry after a
\* folder was created and a file was copied by that same execution
C7_Witness ==
  /\ Running
  /\ hist.reported
  /\ \E f \in FolderIds(src) : f # Root /\ hist.createRun[f] = hist.run
  /\ \E x \in FileIds(src) : hist.copyRun[x] = hist.run

\* C8: an execution that is under way can always take its next step, and
\* one that ended without an exception ended interrupted, with the whole
\* in-memory tree saved and exactly one trigger created, or complete, with
\* both flags on the root, the state file deleted and no trigger created.
C8_TwoEndings ==
  /\ Running => ENABLED (MainCreateDest \/ CreateFolders \/ CopyFiles
                           \/ MainCopyFiles \/ MainTimedOut \/ MainDone)
  /\ (Idle /\ hist.run > 0) => lastEnd \in {"interrupted", "complete", "error"}
  /\ (Idle /\ lastEnd = "interrupted") =>
       /\ ~copySuccessful
       /\ fileTree # <<>>
       /\ ReadState = fileTree
       /\ hist.scheduled = 1
       /\ triggers.pending >= 1
  /\ (Idle /\ lastEnd = "complete") =>
       /\ copySuccessful
       /\ FT.foldersCopied[Root]
       /\ FT.filesCopied[Root]
       /\ persisted = <<>>
       /\ hist.scheduled = 0

\* a job that was interrupted once and completed by the execution the
\* trigger started
C8_Witness ==
  /\ Idle
  /\ lastEnd = "complete"
  /\ hist.run = 2
  /\ hist.manual = 1
  /\ triggers.disabled = 1

\* the second execution of the scenario is over, the first one having timed
\* out after copying f1 and before copying f2
C9_SecondRunDone ==
  /\ src = SrcScenario
  /\ Idle
  /\ hist.run = 2
  /\ ~hist.aborted
  /\ lastEnd = "complete"
  /\ hist.copyRun[1] = 1
  /\ hist.copyRun[2] = 2

\* C9 as stated: the second execution is the one that creates B's
\* destination, besides copying f2 and f3, setting every flag and deleting
\* the state file.
C9_ScenarioAsStated ==
  C9_SecondRunDone =>
    /\ hist.createRun = <<1, 2>>
    /\ hist.copyRun = <<1, 2, 2>>
    /\ \A f \in FolderIds(src) : FT.foldersCopied[f] /\ FT.filesCopied[f]
    /\ persisted = <<>>

\* C9, amended: B's destination was created by the first execution, before
\* f1 was copied; the second execution creates no folder, passes over f1,
\* copies f2 and f3, leaves both flags set on every node and every node
\* with exactly one destination counterpart, and deletes the state file.
C9_Scenario ==
  C9_SecondRunDone =>
    /\ hist.createRun = <<1, 1>>
    /\ hist.copyRun = <<1, 2, 2>>
    /\ created = <<1, 1>>
    /\ copied = <<1, 1, 1>>
    /\ \A f \in FolderIds(src) : FT.foldersCopied[f] /\ FT.filesCopied[f]
    /\ persisted = <<>>

C9_Witness == C9_SecondRunDone /\ triggers.disabled = 1

\* C10: createFolders and then copyFiles, called on a tree in which every
\* folder node has both flags set, both return true, and no folder is
\* created and no file copied by them, whether the deadline has expired or
\* not.
C10_Idempotent ==
  (Idle /\ lastEnd = "rerun") =>
    /\ hist.results = <<TRUE, TRUE>>
    /\ <<created, copied>> = hist.before

\* both calls are over, and the deadline had expired
C10_Witness ==
  /\ Idle
  /\ lastEnd = "rerun"
  /\ expired
  /\ hist.run >= 2

\* C11: an execution of main that starts with no state file while the
\* destination folder exists ends at once with an error: it creates no
\* folder, copies no file, writes no state file and creates no trigger.
C11_FreshExistsFails ==
  [][(Idle /\ persisted = <<>> /\ destExists /\ hist'.run # hist.run) =>
       /\ mpc' = "idle"
       /\ lastEnd' = "error"
       /\ created' = created
       /\ copied' = copied
       /\ persisted' = <<>>
       /\ triggers'.pending <= triggers.pending
       /\ hist'.scheduled = 0]_vars

\* the first execution found the destination folder and ended with an
\* error, nothing created
C11_Witness ==
  /\ Idle
  /\ lastEnd = "error"
  /\ hist.run = 1
  /\ hist.failures = 0
  /\ persisted = <<>>
  /\ destExists
  /\ Total(created) = 0

\* C12: an execution of main that starts with a state file while the
\* destination folder is missing ends at once with an error: it creates no
\* folder, copies no file, leaves the state file as it was and creates no
\* trigger.
C12_ResumeMissingFails ==
  [][(Idle /\ persisted # <<>> /\ ~destExists /\ hist'.run # hist.run) =>
       /\ mpc' = "idle"
       /\ lastEnd' = "error"
       /\ created' = created
       /\ copied' = copied
       /\ persisted' = persisted
       /\ triggers'.pending <= triggers.pending
       /\ hist'.scheduled = 0]_vars

\* the trigger of an interrupted execution started main after the
\* destination folder had been trashed, and main ended with an error
C12_Witness ==
  /\ Idle
  /\ lastEnd = "error"
  /\ hist.how = "trigger"
  /\ hist.trashed = 1
  /\ persisted # <<>>
  /\ ~destExists
  /\ Total(created) > 0

\* C13: withBackoff calls the wrapped operation at most
\* MAX_BACKOFF_ATTEMPTS + 1 times; once a call has succeeded it has returned
\* that call's result and made no further call; and every delay it sleeps,
\* for every attempt number from 0 to MAX_BACKOFF_ATTEMPTS and every jitter,
\* is at most MAX_BACKOFF_TIME_MS.
C13_BackoffBound ==
  /\ one.calls <= MAX_BACKOFF_ATTEMPTS + 1
  /\ (one.backoff = "returned" /\ one.ret # <<>>) =>
       /\ one.ret = <<NewFile(FormatConversionMapping[one.mime])>>
       /\ one.calls = one.attempts + 1
  /\ \A k \in DOMAIN one.slept : one.slept[k] <= MAX_BACKOFF_TIME_MS
  /\ \A a \in 0..MAX_BACKOFF_ATTEMPTS : \A j \in Jitters :
       DelayTime(a, j) <= MAX_BACKOFF_TIME_MS

\* the wrapped call succeeded at the last attempt allowed, after a sleep of
\* the maximal delay
C13_Witness ==
  /\ one.pc = "done"
  /\ one.calls = MAX_BACKOFF_ATTEMPTS + 1
  /\ one.backoff = "returned"
  /\ one.slept = <<MAX_BACKOFF_TIME_MS>>

\* C14: when every allowed call of the wrapped operation has failed,
\* withBackoff does not return normally: it throws the wrapped failure, and
\* that failure is what ends the execution.
C14_ExhaustionPropagates ==
  (one.path = "convert" /\ one.attempts > MAX_BACKOFF_ATTEMPTS) =>
    /\ one.backoff = "threw"
    /\ one.pc = "thrown"
    /\ one.error = "create"

\* C15: as long as fewer remote calls have failed than withBackoff allows
\* attempts, no execution is ended by the failure of a folder creation of
\* createFolders or of a file copy of copyFiles: the failed call is retried.
C15_MutationsRetried ==
  hist.failures <= MAX_BACKOFF_ATTEMPTS =>
    hist.fatal \notin {"createFolder", "makeCopy"}

\* the path the copy policy gives a file of type mime when
\* CONVERT_NATIVE_FORMAT is convert
PolicyPath(mime, convert) ==
  IF mime = "sheets" THEN "spreadsheet"
  ELSE IF mime \in DOMAIN FormatConversionMapping /\ convert THEN "convert"
  ELSE "duplicate"

\* C16: whatever the file's type and the value of CONVERT_NATIVE_FORMAT, a
\* file of a type of the conversion table is converted to the mapped type
\* only when the switch is on, a spreadsheet gets the linked-form handling,
\* and every other file, a convertible one with the switch off included, is
\* duplicated with its type and name unchanged.
C16_CopyPolicy ==
  one.path # "none" =>
    /\ one.path = PolicyPath(one.mime, one.convert)
    /\ one.ret # <<>> =>
         /\ one.ret[1].name = "f"
         /\ one.ret[1].mime = IF one.path = "convert"
                              THEN FormatConversionMapping[one.mime]
                              ELSE one.mime

RECURSIVE FolderCount(_)
\* the number of FolderState records in a nested tree
FolderCount(j) ==
  1 + Total([k \in DOMAIN j.folders |-> FolderCount(j.folders[k])])

RECURSIVE FileCount(_)
\* the number of FileState records in a nested tree
FileCount(j) ==
  Len(j.files) + Total([k \in DOMAIN j.folders |-> FileCount(j.folders[k])])

\* the tree t is what exploreFileTree returns for the source: one folder
\* node per source folder and one file node per source file, each folder with
\* the child folders and files it has in the source, every destId null and
\* every flag false
Mirrors(t) ==
  LET j == ExploreNode(src, Root) IN
    /\ t = FromJson(j)
    /\ FolderCount(j) = Cardinality(FolderIds(src))
    /\ {m.id : m \in JsonFolders(j)} = FolderIds(src)
    /\ FileCount(j) = Cardinality(FileIds(src))
    /\ DOMAIN t.fileDestId = FileIds(src)
    /\ \A f \in FolderIds(src) :
         /\ t.folders[f] = src.folders[f]
         /\ t.files[f] = src.files[f]
         /\ t.destId[f] = NullId
         /\ ~t.foldersCopied[f]
         /\ ~t.filesCopied[f]
    /\ \A x \in FileIds(src) : t.fileDestId[x] = NullId

\* C17: the step that explores the source leaves main with a tree that
\* mirrors the source, all destIds null and all flags false, and changes
\* nothing on the drive; and the first folder creation of a job, that of the
\* destination root, starts from this tree, so the exploration is over
\* before any remote mutation.
C17_Explorer ==
  [][/\ (mpc # "explored" /\ mpc' = "explored") =>
          /\ fileTree' # <<>>
          /\ Mirrors(fileTree'[1])
          /\ created' = created
          /\ copied' = copied
          /\ destExists' = destExists
          /\ persisted' = persisted
     /\ (Total(created) = 0 /\ created' # created) =>
          /\ fileTree # <<>>
          /\ Mirrors(FT)
          /\ created'[Root] = 1
          /\ copied' = copied]_vars

\* the hierarchy with sibling folders has been explored, nothing created
\* yet, and the deadline has passed meanwhile
C17_Witness ==
  /\ mpc = "explored"
  /\ src = SrcSiblings
  /\ expired
  /\ Total(created) = 0

\* C18 as stated: after the execution that completes the job, no fired
\* trigger is left registered, the one that started this execution included.
C18_NoStaleTrigger ==
  (Idle /\ lastEnd = "complete") => triggers.disabled = 0

\* C18, amended: an interrupted execution creates exactly one trigger and no
\* execution creates more than one; the execution that completes the job
\* creates none and deletes every trigger that earlier executions left
\* disabled, while the trigger that started this execution itself, if one
\* did, stays registered, disabled.
C18_TriggerHygiene ==
  /\ hist.scheduled <= 1
  /\ (Idle /\ lastEnd = "interrupted") => hist.scheduled = 1
  /\ (Idle /\ lastEnd = "complete") =>
       /\ hist.scheduled = 0
       /\ triggers.disabled = IF hist.how = "trigger" THEN 1 ELSE 0

\* the job was interrupted twice and completed by the third execution, the
\* second and third started by triggers
C18_Witness ==
  /\ Idle
  /\ lastEnd = "complete"
  /\ hist.run = 3
  /\ hist.manual = 1
  /\ hist.how = "trigger"
  /\ triggers = [pending |-> 0, active |-> 0, disabled |-> 1]

\* C19: a spreadsheet copied by handleCopySpreadsheet keeps its own form
\* links and forms as they were; the finished copy has no linked form, and
\* the forms unlinked and trashed are exactly the duplicates the copy
\* brought along, two for a source with two linked forms; a source without
\* a linked form has no form detached or trashed.
C19_LinkedForms ==
  one.mime = "sheets" =>
    /\ one.links.src = one.sheets
    /\ \A f \in FormsOf(one.sheets) :
         one.forms[f] = [dest |-> "src", trashed |-> FALSE]
    /\ ~one.hasLinkedForm =>
         /\ one.detached = 0
         /\ \A f \in DOMAIN one.forms : ~one.forms[f].trashed
    /\ one.pc = "done" =>
         /\ one.hasLinkedForm = (FormsOf(one.sheets) # {})
         /\ FormsOf(one.links.copy) = {}
         /\ {f \in DOMAIN one.forms : one.forms[f].trashed}
              = {Dup(g) : g \in FormsOf(one.sheets)}
         /\ one.detached = Cardinality(FormsOf(one.sheets))
         /\ \A f \in DOMAIN one.forms :
              one.forms[f].dest = IF one.forms[f].trashed THEN "none"
                                  ELSE "src"

\* a spreadsheet of three sheets with two linked forms has been copied
C19_Witness ==
  /\ one.pc = "done"
  /\ one.sheets = <<1, 0, 2>>
  /\ one.detached = 2
  /\ Cardinality({f \in DOMAIN one.forms : one.forms[f].trashed}) = 2

\* C20: two sibling folders of the same name, once both have a destination,
\* have the same destination folder, in every tree, in memory or saved.
C20_MergeByName ==
  \A t \in Trees : \A n \in DOMAIN t.folders :
    \A b, c \in Range(t.folders[n]) :
      (/\ t.name[b] = t.name[c]
       /\ t.destId[b] # NullId
       /\ t.destId[c] # NullId) => t.destId[b] = t.destId[c]

\* C21: in the loop of createFolders over the children of a folder, a step
\* at a child whose destId is set creates nothing, records nothing and calls
\* createFolders on no one; a step at a child whose destId is null that
\* creates a folder creates exactly one, for that child, records its id and
\* calls createFolders on that child; and a call that returns false ends
\* every loop above it, no tree node changed.
C21_SiblingLoop ==
  [][/\ (InFrame("createFolders", "loop")
           /\ Top.i <= Len(FT.folders[Top.node])) =>
          LET c == FT.folders[Top.node][Top.i] IN
            IF FT.destId[c] # NullId
            THEN /\ created' = created
                 /\ fileTree' = fileTree
                 /\ stack' \in {stack, SetTop([Top EXCEPT !.i = @ + 1])}
            ELSE IF created' # created
            THEN /\ created' = [created EXCEPT ![c] = @ + 1]
                 /\ fileTree'[1].destId[c] # NullId
                 /\ fileTree'[1] = RecordFolder(FT, c, fileTree'[1].destId[c])
                 /\ stack' = Append(stack, Frame("createFolders", c))
            ELSE /\ fileTree' = fileTree
                 /\ stack' \in {stack, <<>>}
     /\ (/\ InFrame("createFolders", "entry")
         /\ mpc = "folders"
         /\ mpc' = "afterFolders"
         /\ ~copySuccessful') =>
          /\ stack' = <<>>
          /\ created' = created
          /\ fileTree' = fileTree
     /\ (mpc = "afterFolders" /\ ~copySuccessful) =>
          /\ created' = created
          /\ copied' = copied
          /\ mpc' \in {"afterFolders", "idle"}]_vars

\* the second execution passed over the first of two siblings, created by
\* the first execution, and created the second; the call on that one
\* returned false with the third level still to do
C21_Witness ==
  /\ src = SrcSiblings
  /\ hist.createRun = <<1, 1, 2, 0>>
  /\ mpc = "afterFolders"
  /\ ~copySuccessful
  /\ hist.run = 2

\* C22: no file is copied while the root's foldersCopied is false, in the
\* tree of the running execution; copyFiles is entered only with that flag
\* set; and an execution in which createFolders returned false goes on to
\* its end without calling copyFiles.
C22_PhaseOrdering ==
  [][/\ copied' # copied => (fileTree # <<>> /\ FT.foldersCopied[Root])
     /\ (\E k \in DOMAIN stack' : stack'[k].fn = "copyFiles") =>
          (fileTree' # <<>> /\ fileTree'[1].foldersCopied[Root])
     /\ (mpc = "afterFolders" /\ ~copySuccessful) =>
          mpc' \in {"afterFolders", "idle"}]_vars

\* the first execution was interrupted in phase 1; the second one finished
\* the structure and is copying files
C22_Witness ==
  /\ mpc = "files"
  /\ hist.run = 2
  /\ Total(copied) = 1
  /\ \E f \in FolderIds(src) : hist.createRun[f] = 2
  /\ \A x \in FileIds(src) : hist.copyRun[x] # 1

\* C23: whenever an execution has ended, interrupted or by an error, with
\* the destination root created by the job and the job not completed, the
\* state file exists.
C23_EndsResumable ==
  (/\ Idle
   /\ lastEnd \in {"interrupted", "error"}
   /\ created[Root] > 0
   /\ destExists
   /\ ~hist.completed) => persisted # <<>>

\* C24: while main has been started by hand at most once, at most one
\* trigger is pending at any time and none is pending while an execution
\* runs, so no trigger can start a second execution beside a running one;
\* and a step that creates a trigger is the step that ends its execution.
C24_OnePending ==
  [][hist'.manual <= 1 =>
       /\ triggers'.pending <= 1
       /\ mpc' # "idle" => triggers'.pending = 0
       /\ triggers'.pending > triggers.pending =>
            (mpc # "idle" /\ mpc' = "idle")]_vars

\* the execution a trigger started was interrupted in turn and has left
\* the next trigger pending
C24_Witness ==
  /\ Idle
  /\ lastEnd = "interrupted"
  /\ hist.manual = 1
  /\ hist.run = 2
  /\ hist.how = "trigger"
  /\ triggers = [pending |-> 1, active |-> 0, disabled |-> 1]

\* C25: once the job is completed, the state file stays deleted and the
\* destination stays in place, no step creates a folder or copies a file,
\* and every further execution of main ends at once with an error, no
\* trigger created.
C25_AfterCompletion ==
  [][hist.completed =>
       /\ persisted = <<>>
       /\ destExists
       /\ created' = created
       /\ copied' = copied
       /\ persisted' = <<>>
       /\ triggers'.pending <= triggers.pending
       /\ hist'.run # hist.run =>
            /\ mpc' = "idle"
            /\ lastEnd' = "error"
            /\ hist'.scheduled = 0]_vars

\* a trigger left pending by an interrupted execution has fired after a
\* hand-started execution completed the job, and main ended with an error
C25_Witness ==
  /\ Idle
  /\ hist.completed
  /\ lastEnd = "error"
  /\ hist.how = "trigger"
  /\ \A f \in FolderIds(src) : created[f] = 1
  /\ \A x \in FileIds(src) : copied[x] = 1

====
